---- MODULE Spec2Model ----
(***************************************************************************)
(* Model of autoenum.py: the AutoEnum base class (case- and separator-     *)
(* insensitive lookup of enum members by name or alias), its lazily built  *)
(* per-class lookup table, hashing/equality, and the key-conversion        *)
(* helpers.                                                                *)
(*                                                                         *)
(* Python strings are sequences of one-character strings.  Python objects  *)
(* are records [kind, cls, s]: a plain str, an int, None, or an enum       *)
(* member (which is also a str instance, since AutoEnum subclasses str).   *)
(***************************************************************************)
EXTENDS Integers, Sequences, FiniteSets, TLC

VARIABLES
    defn,      \* per class: its declarations and list(cls) (empty before the class statement ran)
    clsname,   \* per class: cls.__name__
    lookup,    \* per class: cls.__dict__['_value2member_map_normalized_'], or NoAttr
    ret,       \* the last completed call: operation, class, arguments, outcome
    builds,    \* per class: how many times line 83 created a table
    pc,        \* per thread: position inside from_str / _initialize_lookup
    targ,      \* per thread: the arguments of its from_str call
    tidx,      \* per thread: index of the loop `for e in list(cls)`
    tres,      \* per thread: outcome of its from_str call
    hashseed,  \* the per-process seed of the builtin str hash
    nin,       \* normaliser run: the input string
    nout,      \* normaliser run: <<_normalize(nin), _normalize(_normalize(nin))>> as far as applied
    d0,        \* key conversion: the caller's mapping
    d1,        \* key conversion: convert_keys(d0)
    d2,        \* key conversion: convert_keys_to_str(d1)
    kstage     \* key conversion: position of the caller

vars == <<defn, clsname, lookup, ret, builds, pc, targ, tidx, tres, hashseed,
          nin, nout, d0, d1, d2, kstage>>

apiVars  == <<defn, clsname, lookup, ret, builds>>
thrVars  == <<pc, targ, tidx, tres>>
normVars == <<nin, nout>>
keyVars  == <<d0, d1, d2, kstage>>

-----------------------------------------------------------------------------
(* Bounds *)

MaxLen == 3        \* longest input string of the normaliser run
MaxVariants == 2   \* most members declared in one class
MaxEntries == 2    \* most entries of a mapping passed to convert_keys
MaxSeed == 2       \* hash seeds 0..MaxSeed
HashMod == 1009    \* width of the modelled str hash
NumThreads == 2    \* threads calling from_str concurrently

-----------------------------------------------------------------------------
(* Strings *)

UpperChars == <<"A","B","C","D","E","F","G","H","I","J","K","L","M",
                "N","O","P","Q","R","S","T","U","V","W","X","Y","Z">>

LowerChars == <<"a","b","c","d","e","f","g","h","i","j","k","l","m",
                "n","o","p","q","r","s","t","u","v","w","x","y","z">>

RemovedChars == {" ", "-", "_", ".", ":", ";", ","}

UpperSet == {UpperChars[i] : i \in 1..Len(UpperChars)}

IsUpper(c) == c \in UpperSet

\* the first translation table of str.maketrans: 'A'..'Z' to 'a'..'z'
ToLower == [c \in UpperSet |-> LowerChars[CHOOSE i \in 1..Len(UpperChars) : UpperChars[i] = c]]

\* '-' is replaced by '_' instead of being deleted
TranslateCharHyphenToUnderscore(c) ==
    IF c = "-" THEN <<"_">>
    ELSE IF c \in RemovedChars THEN <<>>
    ELSE IF IsUpper(c) THEN <<ToLower[c]>>
    ELSE <<c>>

\* _DEFAULT_REMOVAL_TABLE applied to one character: the translation of c as
\* a string of length 0 (deleted) or 1
TranslateChar(c) ==
    IF c \in RemovedChars THEN <<>>
    ELSE IF IsUpper(c) THEN <<ToLower[c]>>
    ELSE <<c>>

RECURSIVE Translate(_)
Translate(s) ==
    IF s = <<>> THEN <<>>
    ELSE TranslateChar(Head(s)) \o Translate(Tail(s))

\* AutoEnum._normalize applied to a string
Normalize(s) == Translate(s)

\* the sequences over S of length at most n
RECURSIVE SeqsUpTo(_, _)
SeqsUpTo(S, n) ==
    IF n = 0 THEN {<<>>}
    ELSE LET shorter == SeqsUpTo(S, n - 1)
         IN  shorter \cup {<<c>> \o s : c \in S, s \in {t \in shorter : Len(t) = n - 1}}

NormAlphabet == {"A", "a", "Z", "_", "-", ":", " ", "5", "'"}

NormInputs == SeqsUpTo(NormAlphabet, MaxLen)

-----------------------------------------------------------------------------
(* Python objects *)

Digits == <<"0","1","2","3","4","5","6","7","8","9">>

\* str() of a non-negative int
RECURSIVE IntStr(_)
IntStr(n) ==
    IF n < 10 THEN <<Digits[n + 1]>>
    ELSE Append(IntStr(n \div 10), Digits[(n % 10) + 1])

\* every object carries str(x) in s; n is the number of an int or bool
StrObj(s) == [kind |-> "str", cls |-> 0, s |-> s, n |-> 0]

IntObj(n) == [kind |-> "int", cls |-> 0, s |-> IntStr(n), n |-> n]

NoneObj == [kind |-> "none", cls |-> 0, s |-> <<"N","o","n","e">>, n |-> 0]

BoolObj(b) ==
    [kind |-> "bool", cls |-> 0,
     s |-> IF b THEN <<"T","r","u","e">> ELSE <<"F","a","l","s","e">>,
     n |-> IF b THEN 1 ELSE 0]

\* the member of class t named name; since AutoEnum subclasses str it is a
\* str instance, and str(member) is its name
Member(t, name) == [kind |-> "member", cls |-> t, s |-> name, n |-> 0]

\* str(x)
PyStr(x) == x.s

\* isinstance(x, str)
IsStr(x) == x.kind \in {"str", "member"}

\* isinstance(x, cls)
IsInstance(x, t) == x.kind = "member" /\ x.cls = t

Contains(s, c) == \E i \in 1..Len(s) : s[i] = c

StartsWith(s, prefix) ==
    Len(s) >= Len(prefix) /\ SubSeq(s, 1, Len(prefix)) = prefix

RemovePrefix(s, prefix) ==
    IF StartsWith(s, prefix) THEN SubSeq(s, Len(prefix) + 1, Len(s)) ELSE s

AliasPrefix == <<"a","l","i","a","s",":">>

\* the quote character repr() puts around a str
ReprQuote(s) == IF Contains(s, "'") /\ ~Contains(s, "\"") THEN "\"" ELSE "'"

RECURSIVE ReprBody(_, _)
ReprBody(s, q) ==
    IF s = <<>> THEN <<>>
    ELSE (IF Head(s) = "\\" \/ Head(s) = q THEN <<"\\", Head(s)>> ELSE <<Head(s)>>)
         \o ReprBody(Tail(s), q)

\* repr() of a str
ReprStr(s) == <<ReprQuote(s)>> \o ReprBody(s, ReprQuote(s)) \o <<ReprQuote(s)>>

RECURSIVE ReprItems(_)
ReprItems(names) ==
    IF names = <<>> THEN <<>>
    ELSE IF Len(names) = 1 THEN ReprStr(names[1])
    ELSE ReprStr(names[1]) \o <<",", " ">> \o ReprItems(Tail(names))

\* str() of a list of str
ReprList(names) == <<"[">> \o ReprItems(names) \o <<"]">>

\* alias.__str__
AliasStr(names) == AliasPrefix \o ReprList(names)

\* the body of a quoted literal up to its closing quote q: the string it
\* denotes and what follows the closing quote
RECURSIVE ReadQuoted(_, _, _)
ReadQuoted(s, q, acc) ==
    IF s = <<>> THEN [str |-> acc, rest |-> <<>>]
    ELSE IF Head(s) = q THEN [str |-> acc, rest |-> Tail(s)]
    ELSE IF Head(s) = "\\" /\ Len(s) >= 2
         THEN ReadQuoted(Tail(Tail(s)), q, Append(acc, s[2]))
    ELSE ReadQuoted(Tail(s), q, Append(acc, Head(s)))

RECURSIVE ParseItems(_)
ParseItems(s) ==
    IF s = <<>> \/ Head(s) = "]" THEN <<>>
    ELSE LET item == ReadQuoted(Tail(s), Head(s), <<>>)
             rest == IF StartsWith(item.rest, <<",", " ">>)
                     THEN Tail(Tail(item.rest)) ELSE item.rest
         IN  <<item.str>> \o ParseItems(rest)

\* ast.literal_eval of the text of a list of str literals
LiteralEvalList(s) == IF s # <<>> /\ Head(s) = "[" THEN ParseItems(Tail(s)) ELSE <<>>

-----------------------------------------------------------------------------
(* Enum classes *)

Classes == {1, 2}

\* a declaration `name = auto()` (aliases = <<>>) or `name = alias(...)`
Decl(name, aliases) == [name |-> name, aliases |-> aliases]

\* the value of a declared member: _generate_next_value_ gives auto() the
\* name, and the str mixin turns an alias object into str(alias)
MemberValue(dcl) ==
    IF dcl.aliases = <<>> THEN dcl.name ELSE AliasStr(dcl.aliases)

\* list(cls): the members in declaration order; a declaration whose value
\* equals an earlier one only adds another name for that earlier member
RECURSIVE ListCls(_)
ListCls(decls) ==
    IF decls = <<>> THEN <<>>
    ELSE LET n == Len(decls)
             front == SubSeq(decls, 1, n - 1)
             v == MemberValue(decls[n])
         IN  IF \E i \in 1..(n - 1) : MemberValue(decls[i]) = v
             THEN ListCls(front)
             ELSE Append(ListCls(front), [name |-> decls[n].name, value |-> v])

-----------------------------------------------------------------------------
(* The lookup table *)

NoAttr == [present |-> FALSE, tbl |-> <<>>]

EmptyTable == [present |-> TRUE, tbl |-> <<>>]

\* dict[k] = v
Put(tbl, k, v) == [x \in (DOMAIN tbl) \cup {k} |-> IF x = k THEN v ELSE tbl[x]]

\* lines 96-105: register the alias strings names[j..] of member e
RECURSIVE RegisterAliases(_, _, _, _)
RegisterAliases(tbl, e, names, j) ==
    IF j > Len(names) THEN [tbl |-> tbl, err |-> FALSE]
    ELSE LET k == Normalize(names[j])
         IN  IF k = Normalize(e.name) THEN RegisterAliases(tbl, e, names, j + 1)
             ELSE IF k \in DOMAIN tbl THEN [tbl |-> tbl, err |-> TRUE]
             ELSE RegisterAliases(Put(tbl, k, e.name), e, names, j + 1)

\* lines 85-105: one iteration of `for e in list(cls)` on the table tbl;
\* err is set when the iteration raises the "already exists" ValueError
RegisterMember(tbl, e) ==
    LET k == Normalize(e.name)
    IN  IF k \in DOMAIN tbl THEN [tbl |-> tbl, err |-> TRUE]
        ELSE LET tbl1 == Put(tbl, k, e.name)
             IN  IF StartsWith(e.value, AliasPrefix)
                 THEN RegisterAliases(Put(tbl1, Normalize(e.value), e.name), e,
                                      LiteralEvalList(RemovePrefix(e.value, AliasPrefix)), 1)
                 ELSE [tbl |-> tbl1, err |-> FALSE]

\* lines 84-105: the loop from member i on
RECURSIVE BuildLoop(_, _, _)
BuildLoop(tbl, members, i) ==
    IF i > Len(members) THEN [tbl |-> tbl, err |-> FALSE]
    ELSE LET r == RegisterMember(tbl, members[i])
         IN  IF r.err THEN r ELSE BuildLoop(r.tbl, members, i + 1)

\* the table is rebuilt on every call
InitializeLookupNoCache(members, lk) ==
    LET r == BuildLoop(<<>>, members, 1)
    IN  [lk |-> [present |-> TRUE, tbl |-> r.tbl], err |-> r.err, built |-> TRUE]

\* AutoEnum._initialize_lookup run to its end by one caller: the class
\* attribute afterwards, whether it raised, and whether it ran the loop
InitializeLookup(members, lk) ==
    IF lk.present THEN [lk |-> lk, err |-> FALSE, built |-> FALSE]
    ELSE LET r == BuildLoop(<<>>, members, 1)
         IN  [lk |-> [present |-> TRUE, tbl |-> r.tbl], err |-> r.err, built |-> TRUE]

Return(obj) == [status |-> "return", val |-> obj, err |-> "none"]

Raise(e) == [status |-> "raise", val |-> NoneObj, err |-> e]

\* lines 123-126: the lookup in table tbl of class t
Lookup(t, tbl, x, raise_error) ==
    LET k == Normalize(PyStr(x))
    IN  IF k \in DOMAIN tbl THEN Return(Member(t, tbl[k]))
        ELSE IF raise_error THEN Raise("notfound")
        ELSE Return(NoneObj)

\* AutoEnum.from_str run to its end by one caller on class t whose members
\* are `members` and whose table attribute is lk
FromStr(t, members, lk, x, raise_error) ==
    IF IsInstance(x, t) THEN [out |-> Return(x), lk |-> lk, built |-> FALSE]
    ELSE IF x.kind = "none" /\ ~raise_error
         THEN [out |-> Return(NoneObj), lk |-> lk, built |-> FALSE]
    ELSE IF ~IsStr(x) /\ raise_error
         THEN [out |-> Raise("type"), lk |-> lk, built |-> FALSE]
    ELSE LET b == InitializeLookup(members, lk)
         IN  [out |-> IF b.err THEN Raise("collision")
                      ELSE Lookup(t, b.lk.tbl, x, raise_error),
              lk |-> b.lk, built |-> b.built]

-----------------------------------------------------------------------------
(* Class definitions and inputs drawn by the callers *)

Names == {<<"A","_","B">>, <<"A","B">>, <<"C">>}

\* the text "alias['5''ab']"
CompositeText == <<"a","l","i","a","s","[","'","5","'","'","a","b","'","]">>

\* auto(), alias("alias['5''ab']") and alias('5', 'a-b')
AliasLists == {<<>>, <<CompositeText>>, <<<<"5">>, <<"a","-","b">>>>}

AliasStrings == {CompositeText, <<"5">>, <<"a","-","b">>}

Decls == {Decl(n, a) : n \in Names, a \in AliasLists}

\* a class body cannot bind the same member name twice
TypeDefs ==
    {d \in SeqsUpTo(Decls, MaxVariants) :
        /\ Len(d) >= 1
        /\ \A i, j \in 1..Len(d) : i # j => d[i].name # d[j].name}

QueryStrings == Names \cup AliasStrings

\* what the class statement leaves behind: the declarations and list(cls)
ClassOf(decls) == [decls |-> decls, members |-> ListCls(decls)]

NoClass == [decls |-> <<>>, members |-> <<>>]

MemberNames(c) == {c.members[i].name : i \in 1..Len(c.members)}

\* the alias strings declared for the member called name
AliasesOf(c, name) ==
    LET dcl == CHOOSE dc \in {c.decls[i] : i \in 1..Len(c.decls)} : dc.name = name
    IN  {dcl.aliases[j] : j \in 1..Len(dcl.aliases)}

\* the objects a caller passes to from_str and friends of class 1
ApiInputs(c) ==
    {StrObj(s) : s \in QueryStrings}
        \cup {NoneObj, IntObj(5)}
        \cup {Member(1, n) : n \in MemberNames(c)}
        \cup {Member(2, <<"C">>)}

\* the objects a caller passes to matches and friends of class 1
HelperInputs == {StrObj(s) : s \in QueryStrings} \cup {IntObj(5)}

\* the class statement ran and its table build raises the "already exists"
\* error
Ambiguous(c) == BuildLoop(<<>>, c.members, 1).err

-----------------------------------------------------------------------------
(* Sequential use of one class: every call runs to its end *)

NoCall ==
    [op |-> "none", self |-> NoneObj, arg |-> NoneObj, raise_error |-> FALSE,
     out |-> Return(NoneObj)]

IdleThreads ==
    /\ pc = [th \in 1..NumThreads |-> "idle"]
    /\ targ = [th \in 1..NumThreads |-> [x |-> NoneObj, raise_error |-> FALSE]]
    /\ tidx = [th \in 1..NumThreads |-> 0]
    /\ tres = [th \in 1..NumThreads |-> Return(NoneObj)]

IdleNorm == nin = <<>> /\ nout = <<>>

IdleKeys ==
    /\ d0 = <<>>
    /\ d1 = [status |-> "none", dict |-> <<>>]
    /\ d2 = [status |-> "none", dict |-> <<>>]
    /\ kstage = 0

NoClasses ==
    /\ defn = [t \in Classes |-> NoClass]
    /\ clsname = [t \in Classes |-> <<>>]
    /\ lookup = [t \in Classes |-> NoAttr]
    /\ builds = [t \in Classes |-> 0]
    /\ ret = NoCall

Init ==
    /\ NoClasses
    /\ hashseed = 0
    /\ IdleThreads
    /\ IdleNorm
    /\ IdleKeys

\* `class T(AutoEnum): ...` with the member declarations decls
ClassDef(decls) ==
    /\ defn' = [defn EXCEPT ![1] = ClassOf(decls)]
    /\ clsname' = [clsname EXCEPT ![1] = <<"T">>]
    /\ ret' = [NoCall EXCEPT !.op = "class"]
    /\ UNCHANGED <<lookup, builds>>

\* T.from_str(x, raise_error)
CallFromStr(x, raise_error) ==
    /\ LET r == FromStr(1, defn[1].members, lookup[1], x, raise_error)
       IN  /\ lookup' = [lookup EXCEPT ![1] = r.lk]
           /\ builds' = [builds EXCEPT ![1] = IF r.built THEN @ + 1 ELSE @]
           /\ ret' = [op |-> "from_str", self |-> NoneObj, arg |-> x,
                      raise_error |-> raise_error, out |-> r.out]
    /\ UNCHANGED <<defn, clsname>>

\* the class state and the call record after a helper that called
\* from_str(x, raise_error=False) with result r and answers the bool b
AfterHelper(op, self, x, r, b) ==
    /\ lookup' = [lookup EXCEPT ![1] = r.lk]
    /\ builds' = [builds EXCEPT ![1] = IF r.built THEN @ + 1 ELSE @]
    /\ ret' = [op |-> op, self |-> self, arg |-> x, raise_error |-> FALSE,
               out |-> IF r.out.status = "raise" THEN r.out ELSE Return(BoolObj(b))]
    /\ UNCHANGED <<defn, clsname>>

\* self.matches(x)
CallMatches(self, x) ==
    LET r == FromStr(1, defn[1].members, lookup[1], x, FALSE)
    IN  AfterHelper("matches", self, x, r, r.out.val = self)

\* T.matches_any(x)
CallMatchesAny(x) ==
    LET r == FromStr(1, defn[1].members, lookup[1], x, FALSE)
    IN  AfterHelper("matches_any", NoneObj, x, r, r.out.val # NoneObj)

\* T.does_not_match_any(x)
CallDoesNotMatchAny(x) ==
    LET r == FromStr(1, defn[1].members, lookup[1], x, FALSE)
    IN  AfterHelper("does_not_match_any", NoneObj, x, r, ~(r.out.val # NoneObj))

Next ==
    \/ /\ defn[1] = NoClass
       /\ \E decls \in TypeDefs : ClassDef(decls)
       /\ UNCHANGED <<hashseed, thrVars, normVars, keyVars>>
    \/ /\ defn[1] # NoClass
       /\ \E x \in ApiInputs(defn[1]), raise_error \in BOOLEAN : CallFromStr(x, raise_error)
       /\ UNCHANGED <<hashseed, thrVars, normVars, keyVars>>
    \/ /\ defn[1] # NoClass
       /\ \E self \in {Member(1, n) : n \in MemberNames(defn[1])}, x \in HelperInputs :
            CallMatches(self, x)
       /\ UNCHANGED <<hashseed, thrVars, normVars, keyVars>>
    \/ /\ defn[1] # NoClass
       /\ \E x \in HelperInputs : CallMatchesAny(x)
       /\ UNCHANGED <<hashseed, thrVars, normVars, keyVars>>
    \/ /\ defn[1] # NoClass
       /\ \E x \in HelperInputs : CallDoesNotMatchAny(x)
       /\ UNCHANGED <<hashseed, thrVars, normVars, keyVars>>

Spec == Init /\ [][Next]_vars

-----------------------------------------------------------------------------
(* The normaliser applied twice *)

InitNorm ==
    /\ NoClasses
    /\ hashseed = 0
    /\ IdleThreads
    /\ IdleKeys
    /\ nin \in NormInputs
    /\ nout = <<>>

\* T._normalize(nin), then T._normalize of the result
NormalizeCall ==
    /\ Len(nout) < 2
    /\ nout' = Append(nout, Normalize(IF nout = <<>> THEN nin ELSE nout[Len(nout)]))
    /\ UNCHANGED <<nin, apiVars, hashseed, thrVars, keyVars>>

NextNorm == NormalizeCall

SpecNorm == InitNorm /\ [][NextNorm]_vars

-----------------------------------------------------------------------------
(* Concurrent first use of one class: each thread makes one from_str call,  *)
(* and threads interleave between the statements of from_str and            *)
(* _initialize_lookup (one iteration of the build loop is one step)         *)

Threads == 1..NumThreads

\* what a thread passes to from_str
ThreadInputs(c) == {StrObj(n) : n \in MemberNames(c)} \cup {NoneObj}

InitConc ==
    /\ defn \in {[t \in Classes |-> IF t = 1 THEN ClassOf(d) ELSE NoClass] : d \in TypeDefs}
    /\ clsname = [t \in Classes |-> IF t = 1 THEN <<"T">> ELSE <<>>]
    /\ lookup = [t \in Classes |-> NoAttr]
    /\ builds = [t \in Classes |-> 0]
    /\ ret = NoCall
    /\ hashseed = 0
    /\ IdleThreads
    /\ IdleNorm
    /\ IdleKeys

\* lines 116-121: the early exits of from_str
TCall(th, x, raise_error) ==
    /\ pc[th] = "idle"
    /\ targ' = [targ EXCEPT ![th] = [x |-> x, raise_error |-> raise_error]]
    /\ IF IsInstance(x, 1)
       THEN /\ tres' = [tres EXCEPT ![th] = Return(x)]
            /\ pc' = [pc EXCEPT ![th] = "done"]
       ELSE IF x.kind = "none" /\ ~raise_error
       THEN /\ tres' = [tres EXCEPT ![th] = Return(NoneObj)]
            /\ pc' = [pc EXCEPT ![th] = "done"]
       ELSE IF ~IsStr(x) /\ raise_error
       THEN /\ tres' = [tres EXCEPT ![th] = Raise("type")]
            /\ pc' = [pc EXCEPT ![th] = "done"]
       ELSE /\ pc' = [pc EXCEPT ![th] = "check"]
            /\ UNCHANGED tres
    /\ UNCHANGED <<tidx, lookup, builds>>

\* line 82: is the table attribute in cls.__dict__ ?
TCheck(th) ==
    /\ pc[th] = "check"
    /\ pc' = [pc EXCEPT ![th] = IF lookup[1].present THEN "get" ELSE "create"]
    /\ UNCHANGED <<targ, tidx, tres, lookup, builds>>

\* lines 83-84: bind the attribute to a new empty dict and start the loop
TCreate(th) ==
    /\ pc[th] = "create"
    /\ lookup' = [lookup EXCEPT ![1] = EmptyTable]
    /\ builds' = [builds EXCEPT ![1] = @ + 1]
    /\ tidx' = [tidx EXCEPT ![th] = 1]
    /\ pc' = [pc EXCEPT ![th] = IF defn[1].members = <<>> THEN "get" ELSE "loop"]
    /\ UNCHANGED <<targ, tres>>

\* lines 85-105: one iteration of the loop, on whatever dict the attribute
\* is bound to now
TIterate(th) ==
    /\ pc[th] = "loop"
    /\ LET r == RegisterMember(lookup[1].tbl, defn[1].members[tidx[th]])
       IN  /\ lookup' = [lookup EXCEPT ![1] = [present |-> TRUE, tbl |-> r.tbl]]
           /\ IF r.err
              THEN /\ tres' = [tres EXCEPT ![th] = Raise("collision")]
                   /\ pc' = [pc EXCEPT ![th] = "done"]
                   /\ UNCHANGED tidx
              ELSE /\ tidx' = [tidx EXCEPT ![th] = @ + 1]
                   /\ pc' = [pc EXCEPT ![th] =
                                IF tidx[th] + 1 > Len(defn[1].members) THEN "get" ELSE "loop"]
                   /\ UNCHANGED tres
    /\ UNCHANGED <<targ, builds>>

\* lines 123-126
TGet(th) ==
    /\ pc[th] = "get"
    /\ tres' = [tres EXCEPT ![th] = Lookup(1, lookup[1].tbl, targ[th].x, targ[th].raise_error)]
    /\ pc' = [pc EXCEPT ![th] = "done"]
    /\ UNCHANGED <<targ, tidx, lookup, builds>>

concFixed == <<defn, clsname, ret, hashseed, normVars, keyVars>>

NextConc ==
    \/ /\ \E th \in Threads, x \in ThreadInputs(defn[1]), raise_error \in BOOLEAN :
            TCall(th, x, raise_error)
       /\ UNCHANGED concFixed
    \/ /\ \E th \in Threads : TCheck(th)
       /\ UNCHANGED concFixed
    \/ /\ \E th \in Threads : TCreate(th)
       /\ UNCHANGED concFixed
    \/ /\ \E th \in Threads : TIterate(th)
       /\ UNCHANGED concFixed
    \/ /\ \E th \in Threads : TGet(th)
       /\ UNCHANGED concFixed

SpecConc == InitConc /\ [][NextConc]_vars

\* some thread ran the build loop to its end
BuildCompleted == \E th \in Threads : tidx[th] > Len(defn[1].members)

\* C4: when threads use a correctly defined class for the first time
\* concurrently, every from_str(v.name) returns v: no thread looks up in a
\* partially built table.
C4_NoPartialTableSeen ==
    \A th \in Threads :
        (/\ pc[th] = "done"
         /\ targ[th].x.kind = "str"
         /\ targ[th].x.s \in MemberNames(defn[1])
         /\ ~Ambiguous(defn[1]))
        => tres[th] = Return(Member(1, targ[th].x.s))

\* C9: an iteration of the build loop never overwrites an entry that is
\* already in the table (a key that is present, the composite alias-list
\* key included, makes the build fail instead).
C9_BuildNeverOverwrites ==
    [][\A th \in Threads :
          (pc[th] = "loop" /\ (pc'[th] # "loop" \/ tidx'[th] # tidx[th]))
          => \A k \in DOMAIN lookup[1].tbl :
                /\ k \in DOMAIN lookup'[1].tbl
                /\ lookup'[1].tbl[k] = lookup[1].tbl[k]]_vars

\* C10: the table of a class is created at most once, and once a build has
\* completed nothing adds, removes or changes an entry.
C10_BuiltOnceThenReadOnly ==
    /\ [](builds[1] <= 1)
    /\ [][BuildCompleted => lookup' = lookup]_vars

-----------------------------------------------------------------------------
(* Key conversion: a caller converts a mapping's keys to members and back  *)

\* a dict is the sequence of its items [k, v] in insertion order, with
\* distinct keys
DictIndex(d, k) ==
    IF \E i \in 1..Len(d) : d[i].k = k
    THEN CHOOSE i \in 1..Len(d) : d[i].k = k
    ELSE 0

\* d[k] = v
DictSet(d, k, v) ==
    IF DictIndex(d, k) = 0 THEN Append(d, [k |-> k, v |-> v])
    ELSE [d EXCEPT ![DictIndex(d, k)] = [k |-> k, v |-> v]]

\* d == e for dicts
DictEq(d, e) == {d[i] : i \in 1..Len(d)} = {e[i] : i \in 1..Len(e)}

\* the member's value instead of its name
MemberStrValue(members, m) ==
    LET e == CHOOSE x \in {members[i] : i \in 1..Len(members)} : x.name = m.s
    IN  e.value

\* AutoEnum.__str__ of member m
MemberStr(members, m) == m.s

\* the element of a one-element set
Only(S) == CHOOSE x \in S : TRUE

\* lines 141-147: the loop of convert_keys from item i on, out_dict being out;
\* first and second are the results of the two from_str calls of lines 143
\* and 144
RECURSIVE ConvertKeysFrom(_, _, _, _, _, _)
ConvertKeysFrom(t, members, lk, d, i, out) ==
    IF i > Len(d) THEN [status |-> "return", dict |-> out, lk |-> lk]
    ELSE IF ~IsStr(d[i].k)
         THEN ConvertKeysFrom(t, members, lk, d, i + 1, DictSet(out, d[i].k, d[i].v))
    ELSE Only({IF first.out.status = "raise"
               THEN [status |-> "raise", dict |-> <<>>, lk |-> first.lk]
               ELSE IF first.out.val = NoneObj
               THEN ConvertKeysFrom(t, members, first.lk, d, i + 1,
                                    DictSet(out, d[i].k, d[i].v))
               ELSE Only({ConvertKeysFrom(t, members, second.lk, d, i + 1,
                                          DictSet(out, second.out.val, d[i].v)) :
                          second \in {FromStr(t, members, first.lk, d[i].k, FALSE)}}) :
               first \in {FromStr(t, members, lk, d[i].k, FALSE)}})

\* AutoEnum.convert_keys
ConvertKeys(t, members, lk, d) == ConvertKeysFrom(t, members, lk, d, 1, <<>>)

\* lines 157-163: the loop of convert_keys_to_str
RECURSIVE ConvertKeysToStrFrom(_, _, _, _, _)
ConvertKeysToStrFrom(t, members, d, i, out) ==
    IF i > Len(d) THEN out
    ELSE ConvertKeysToStrFrom(t, members, d, i + 1,
            DictSet(out,
                    IF IsInstance(d[i].k, t) THEN StrObj(MemberStr(members, d[i].k))
                    ELSE d[i].k,
                    d[i].v))

\* AutoEnum.convert_keys_to_str
ConvertKeysToStr(t, members, d) == ConvertKeysToStrFrom(t, members, d, 1, <<>>)

\* the keys a caller uses: the canonical name 'A_B', the spelling 'a-b',
\* the string '5', the int 5, members of the class and of another class
KeyObjs(c) ==
    {StrObj(<<"A","_","B">>), StrObj(<<"a","-","b">>), StrObj(<<"5">>), IntObj(5)}
        \cup {Member(1, n) : n \in MemberNames(c)}
        \cup {Member(2, <<"C">>)}

\* the mappings of at most MaxEntries items; the value of an item is its
\* position
Mappings(c) ==
    {[i \in 1..Len(ks) |-> [k |-> ks[i], v |-> i]] :
        ks \in {q \in SeqsUpTo(KeyObjs(c), MaxEntries) :
                    \A i, j \in 1..Len(q) : i # j => q[i] # q[j]}}

NoDict == [status |-> "none", dict |-> <<>>]

\* the class was never looked up in, or an earlier from_str call ran the
\* build (to its end, or until it raised)
InitKeys ==
    /\ defn \in {[t \in Classes |-> IF t = 1 THEN ClassOf(d) ELSE NoClass] : d \in TypeDefs}
    /\ clsname = [t \in Classes |-> IF t = 1 THEN <<"T">> ELSE <<>>]
    /\ \E used \in BOOLEAN :
          /\ lookup = [t \in Classes |->
                         IF t = 1 /\ used
                         THEN InitializeLookup(defn[1].members, NoAttr).lk
                         ELSE NoAttr]
          /\ builds = [t \in Classes |-> IF t = 1 /\ used THEN 1 ELSE 0]
    /\ ret = NoCall
    /\ hashseed = 0
    /\ IdleThreads
    /\ IdleNorm
    /\ d0 \in Mappings(defn[1])
    /\ d1 = NoDict
    /\ d2 = NoDict
    /\ kstage = 0

\* d1 = T.convert_keys(d0)
KConvertKeys ==
    /\ kstage = 0
    /\ \E r \in {ConvertKeys(1, defn[1].members, lookup[1], d0)} :
           /\ d1' = [status |-> r.status, dict |-> r.dict]
           /\ lookup' = [lookup EXCEPT ![1] = r.lk]
           /\ builds' = [builds EXCEPT ![1] = IF r.lk # lookup[1] THEN @ + 1 ELSE @]
    /\ kstage' = 1
    /\ UNCHANGED <<d0, d2>>

\* d2 = T.convert_keys_to_str(d1)
KConvertKeysToStr ==
    /\ kstage = 1
    /\ d1.status = "return"
    /\ d2' = [status |-> "return", dict |-> ConvertKeysToStr(1, defn[1].members, d1.dict)]
    /\ kstage' = 2
    /\ UNCHANGED <<d0, d1, lookup, builds>>

keysFixed == <<defn, clsname, ret, hashseed, thrVars, normVars>>

NextKeys ==
    \/ KConvertKeys /\ UNCHANGED keysFixed
    \/ KConvertKeysToStr /\ UNCHANGED keysFixed

SpecKeys == InitKeys /\ [][NextKeys]_vars

\* what from_str(k, raise_error=False) gives now
Resolved(k) == FromStr(1, defn[1].members, lookup[1], k, FALSE).out

\* C7 as stated: convert_keys_to_str(convert_keys(d)) == d whenever the
\* string forms of the converted keys are unique (no two items of d end up
\* under one key), also for keys that matched through another spelling or
\* an alias.
C7_RoundTrip ==
    (kstage = 2 /\ Len(d2.dict) = Len(d0)) => DictEq(d2.dict, d0)

\* a str key of d0 that resolves to a member is the plain string that is the
\* member's canonical name
CanonicalKeys ==
    \A i \in 1..Len(d0) :
        (IsStr(d0[i].k) /\ Resolved(d0[i].k).val # NoneObj)
        => d0[i].k = StrObj(Resolved(d0[i].k).val.s)

\* C7 amended: convert_keys_to_str(convert_keys(d)) == d whenever
\* convert_keys raises nothing and every key of d that is a str instance and
\* resolves to a member is the plain string equal to that member's canonical
\* name.
C7_RoundTripCanonical ==
    (kstage = 2 /\ CanonicalKeys) => DictEq(d2.dict, d0)

\* a mapping with a canonical-name key went to a member key and back
C7_Witness ==
    /\ kstage = 2
    /\ builds[1] = 1
    /\ CanonicalKeys
    /\ \E i \in 1..Len(d0) : IsStr(d0[i].k) /\ Resolved(d0[i].k).val # NoneObj
    /\ \E i \in 1..Len(d1.dict) : IsInstance(d1.dict[i].k, 1)
    /\ Len(d0) = MaxEntries

-----------------------------------------------------------------------------
(* Hashing and equality of members of two classes *)

ClassNames == {<<"T">>, <<"U">>}

\* the code point of the characters of the class and member names in use
\* (upper-case letters, '_' and '.')
CharCode(c) ==
    IF c \in UpperSet THEN 64 + (CHOOSE i \in 1..26 : UpperChars[i] = c)
    ELSE IF c = "_" THEN 95
    ELSE IF c = "." THEN 46
    ELSE 0

\* the builtin hash of a str: a function of the process seed and of the
\* characters, equal for equal strings
RECURSIVE StrHashFrom(_, _)
StrHashFrom(h, s) ==
    IF s = <<>> THEN h
    ELSE StrHashFrom((h * 31 + CharCode(Head(s))) % HashMod, Tail(s))

StrHash(seed, s) == StrHashFrom(seed, s)

\* AutoEnum.__hash__
MemberHash(seed, cn, m) == StrHash(seed, cn \o <<".">> \o m.s)

\* AutoEnum.__eq__: members are singletons, so `is` compares class and name
MemberEq(m, other) == m = other

\* AutoEnum.__ne__
MemberNe(m, other) == m # other

\* classes whose members are all auto()
HashTypeDefs == {d \in TypeDefs : \A i \in 1..Len(d) : d[i].aliases = <<>>}

AllMembers == UNION {{Member(t, n) : n \in MemberNames(defn[t])} : t \in Classes}

InitHash ==
    /\ NoClasses
    /\ hashseed \in 0..MaxSeed
    /\ IdleThreads
    /\ IdleNorm
    /\ IdleKeys

\* `class <cn>(AutoEnum): ...`, possibly with the name of another class
HClassDef(t, cn, decls) ==
    /\ defn[t] = NoClass
    /\ defn' = [defn EXCEPT ![t] = ClassOf(decls)]
    /\ clsname' = [clsname EXCEPT ![t] = cn]
    /\ ret' = [NoCall EXCEPT !.op = "class"]
    /\ UNCHANGED <<lookup, builds>>

\* hash(m)
CallHash(m) ==
    /\ ret' = [op |-> "hash", self |-> m, arg |-> NoneObj, raise_error |-> FALSE,
               out |-> Return(IntObj(MemberHash(hashseed, clsname[m.cls], m)))]
    /\ UNCHANGED <<defn, clsname, lookup, builds>>

\* m == other
CallEq(m, other) ==
    /\ ret' = [op |-> "eq", self |-> m, arg |-> other, raise_error |-> FALSE,
               out |-> Return(BoolObj(MemberEq(m, other)))]
    /\ UNCHANGED <<defn, clsname, lookup, builds>>

\* m != other
CallNe(m, other) ==
    /\ ret' = [op |-> "ne", self |-> m, arg |-> other, raise_error |-> FALSE,
               out |-> Return(BoolObj(MemberNe(m, other)))]
    /\ UNCHANGED <<defn, clsname, lookup, builds>>

hashFixed == <<hashseed, thrVars, normVars, keyVars>>

NextHash ==
    \/ /\ \E t \in Classes, cn \in ClassNames, decls \in HashTypeDefs : HClassDef(t, cn, decls)
       /\ UNCHANGED hashFixed
    \/ /\ \E m \in AllMembers : CallHash(m)
       /\ UNCHANGED hashFixed
    \/ /\ \E m, other \in AllMembers : CallEq(m, other)
       /\ UNCHANGED hashFixed
    \/ /\ \E m, other \in AllMembers : CallNe(m, other)
       /\ UNCHANGED hashFixed

SpecHash == InitHash /\ [][NextHash]_vars

\* C6: members of two distinct classes that have the same name hash
\* differently and compare unequal, also when the two classes have the same
\* class name.
C6_DistinctAcrossClasses ==
    /\ ret.op = "hash"
       => \A t \in Classes \ {ret.self.cls} :
             ret.self.s \in MemberNames(defn[t])
             => ret.out.val # IntObj(MemberHash(hashseed, clsname[t], Member(t, ret.self.s)))
    /\ (ret.op \in {"eq", "ne"} /\ ret.self.cls # ret.arg.cls /\ ret.self.s = ret.arg.s)
       => ret.out.val = BoolObj(ret.op = "ne")

-----------------------------------------------------------------------------
(* Properties of sequential use *)

\* C1: in a class whose table build raises no collision error,
\* from_str(v.name, raise_error=True) returns v for every member v, and
\* from_str(a, raise_error=True) returns v for every alias string a
\* declared for v.
C1_NamesAndAliasesResolve ==
    (/\ ret.op = "from_str"
     /\ ret.raise_error
     /\ ret.arg.kind = "str"
     /\ ~Ambiguous(defn[1]))
    => \A n \in MemberNames(defn[1]) :
          (ret.arg.s = n \/ ret.arg.s \in AliasesOf(defn[1], n))
          => ret.out = Return(Member(1, n))

\* C2 as stated: the collision error is raised when the class is defined;
\* no from_str call (nor a helper built on it) is where it surfaces.
C2_CollisionAtDefinition ==
    ret.out = Raise("collision") => ret.op = "class"

\* C2 amended: the collision error is raised by the lazy table build, inside
\* the first call that reaches the lookup of a class that has no table yet:
\* never by the class statement, never by a call that finds a table.
C2_CollisionAtFirstBuild ==
    [][ret'.out = Raise("collision")
        => /\ ret'.op # "class"
           /\ ~lookup[1].present
           /\ lookup'[1].present]_vars

C2_Witness ==
    /\ ret.op = "from_str"
    /\ ret.out = Raise("collision")
    /\ lookup[1].present

\* C3: in a class whose table build raises the collision error, every
\* from_str / matches / matches_any call with a string input fails with the
\* collision error; none gets an answer from the partially filled table.
C3_NoPartialTable ==
    (/\ ret.op \in {"from_str", "matches", "matches_any"}
     /\ ret.arg.kind = "str"
     /\ Ambiguous(defn[1]))
    => ret.out = Raise("collision")

\* C5: from_str(x, raise_error=False) never raises, and returns None for
\* every x that is neither a str nor a member of the class.
C5_NonStrictNeverRaises ==
    (ret.op = "from_str" /\ ~ret.raise_error)
    => /\ ret.out.status = "return"
       /\ (~IsStr(ret.arg) /\ ~IsInstance(ret.arg, 1)) => ret.out.val = NoneObj

\* C8: _normalize(_normalize(s)) = _normalize(s) for every string s.
C8_NormalizeIdempotent ==
    Len(nout) = 2 => nout[2] = nout[1]

\* a string with an upper-case letter and a removed character was
\* normalised twice
C8_Witness ==
    /\ Len(nout) = 2
    /\ \E i \in 1..Len(nin) : IsUpper(nin[i])
    /\ \E i \in 1..Len(nin) : nin[i] \in RemovedChars
    /\ nout[1] # nin

====
